---- MODULE Spec2Model ----
(***************************************************************************)
(* Model of src/supabaseClient.ts: environment resolution, validation,     *)
(* diagnostic logging and client construction at module load, and the      *)
(* on-demand asynchronous probe testSupabaseConnection.                    *)
(*                                                                         *)
(* JavaScript strings that the code inspects (urls, keys) are sequences of *)
(* one-character strings; opaque values (variable names, rows, messages)  *)
(* are TLA+ strings.                                                       *)
(***************************************************************************)
EXTENDS Integers, Sequences, FiniteSets, TLC

VARIABLES metaEnv, procEnv, hasWindow, pc, supabaseUrl, supabaseAnonKey,
          isSupabaseConfigured, console, supabase, created, window,
          calls, queries

vars == <<metaEnv, procEnv, hasWindow, pc, supabaseUrl, supabaseAnonKey,
          isSupabaseConfigured, console, supabase, created, window,
          calls, queries>>

----------------------------------------------------------------------------
(* Bounds and program constants *)

\* number of probe invocations a behaviour may make
MaxCalls == 2

\* the key-length threshold of the validity check
KeyLenThreshold == 20

----------------------------------------------------------------------------
(* String literals of the source, as character sequences *)

HTTPS == <<"h","t","t","p","s",":","/","/">>

HTTP == <<"h","t","t","p",":","/","/">>

PLACEHOLDER == <<"p","l","a","c","e","h","o","l","d","e","r">>

PlaceholderUrl ==
    HTTPS \o PLACEHOLDER \o
    <<"-","p","r","o","j","e","c","t",".","s","u","p","a","b","a","s","e",".","c","o">>

PlaceholderKey == PLACEHOLDER \o <<"-","k","e","y">>

\* the four candidate variable names, in the order the code lists them
VITE_URL == "VITE_SUPABASE_URL"

VITE_KEY == "VITE_SUPABASE_ANON_KEY"

PLAIN_URL == "SUPABASE_URL"

PLAIN_KEY == "SUPABASE_ANON_KEY"

Names == {VITE_URL, VITE_KEY, PLAIN_URL, PLAIN_KEY}

----------------------------------------------------------------------------
(* Input domains *)

Host == <<"a","b","c",".","s","u","p","a","b","a","s","e",".","c","o">>

RealUrl == HTTPS \o Host

PlainHttpUrl == HTTP \o Host

\* values a URL variable may hold; <<>> is unset or empty (both falsy)
UrlVals == {<<>>, RealUrl, PlainHttpUrl, PlaceholderUrl}

KeyOfLen(n) == [i \in 1..n |-> "k"]

\* values a key variable may hold: unset, the placeholder literal, exactly
\* at the threshold, just above it
KeyVals ==
    {KeyOfLen(0), PlaceholderKey, KeyOfLen(KeyLenThreshold),
     KeyOfLen(KeyLenThreshold + 1)}

NoVars == [n \in Names |-> <<>>]

VarMaps ==
    {[n \in Names |-> IF n = VITE_URL THEN vu ELSE IF n = PLAIN_URL THEN pu
                      ELSE IF n = VITE_KEY THEN vk ELSE pk] :
        vu \in UrlVals, pu \in UrlVals, vk \in KeyVals, pk \in KeyVals}

\* An environment source: present with its variables, absent from the
\* runtime, or one whose access throws.
Sources ==
    {[status |-> "ok", vars |-> m] : m \in VarMaps}
    \cup {[status |-> "missing", vars |-> NoVars],
          [status |-> "throws", vars |-> NoVars]}

----------------------------------------------------------------------------
(* JavaScript string operations used by the code *)

\* s.startsWith(p)
StartsWith(s, p) == Len(s) >= Len(p) /\ SubSeq(s, 1, Len(p)) = p

RECURSIVE IncludesFrom(_, _, _)
IncludesFrom(s, sub, i) ==
    IF i + Len(sub) - 1 > Len(s) THEN FALSE
    ELSE IF SubSeq(s, i, i + Len(sub) - 1) = sub THEN TRUE
    ELSE IncludesFrom(s, sub, i + 1)

\* s.includes(sub)
Includes(s, sub) == IncludesFrom(s, sub, 1)

----------------------------------------------------------------------------
(* getEnv, lines 8-29 *)

\* the marker of an exception leaving an expression
Raised == <<"<exception>">>

\* Body of a try block of getEnv over one source: the value it returns, a
\* fall-through when the condition is falsy, or a throw.
TrySource(src, key) ==
    IF src.status = "throws" THEN [kind |-> "throw", val |-> <<>>]
    ELSE IF src.status = "ok" /\ src.vars[key] # <<>>
         THEN [kind |-> "return", val |-> src.vars[key]]
         ELSE [kind |-> "fall", val |-> <<>>]

getEnv_NoCatch(key) ==
    LET r1 == TrySource(metaEnv, key) IN
    IF r1.kind = "return" THEN r1.val
    ELSE IF r1.kind = "throw" THEN Raised
    ELSE LET r2 == TrySource(procEnv, key) IN
         IF r2.kind = "return" THEN r2.val
         ELSE IF r2.kind = "throw" THEN Raised
         ELSE <<>>

getEnv_ProcessFirst(key) ==
    LET r1 == TrySource(procEnv, key) IN
    IF r1.kind = "return" THEN r1.val
    ELSE LET r2 == TrySource(metaEnv, key) IN
         IF r2.kind = "return" THEN r2.val
         ELSE <<>>

\* Both catch blocks are empty: a throw continues like a fall-through.
getEnv(key) ==
    LET r1 == TrySource(metaEnv, key) IN
    IF r1.kind = "return" THEN r1.val
    ELSE LET r2 == TrySource(procEnv, key) IN
         IF r2.kind = "return" THEN r2.val
         ELSE <<>>

\* a || b on strings, with an exception in a propagating
OrElse(a, b) == IF a = Raised THEN Raised ELSE IF a # <<>> THEN a ELSE b

\* line 32
ResolveUrl == OrElse(getEnv(VITE_URL), getEnv(PLAIN_URL))

\* line 33
ResolveKey == OrElse(getEnv(VITE_KEY), getEnv(PLAIN_KEY))

----------------------------------------------------------------------------
(* isSupabaseConfigured, lines 36-43 *)

Configured_AtLeast(url, key) ==
    /\ url # <<>>
    /\ key # <<>>
    /\ ~Includes(url, PLACEHOLDER)
    /\ Len(url) > 0
    /\ StartsWith(url, HTTPS)
    /\ Len(key) >= KeyLenThreshold

Configured(url, key) ==
    /\ url # <<>>
    /\ key # <<>>
    /\ ~Includes(url, PLACEHOLDER)
    /\ Len(url) > 0
    /\ StartsWith(url, HTTPS)
    /\ Len(key) > KeyLenThreshold

----------------------------------------------------------------------------
(* Diagnostic logging block, lines 45-69 *)

Line(kind, args) == [kind |-> kind, args |-> args]

FoundMark(v) == IF v # <<>> THEN "Found" ELSE "Missing"

\* the object logged after 'Checked for:', in the order of lines 52-55
CheckedReport ==
    <<FoundMark(getEnv(VITE_URL)), FoundMark(getEnv(VITE_KEY)),
      FoundMark(getEnv(PLAIN_URL)), FoundMark(getEnv(PLAIN_KEY))>>

WarningLines ==
    <<Line("alert", <<>>), Line("checked", CheckedReport),
      Line("howto", <<>>), Line("step1", <<>>), Line("step2", <<>>),
      Line("example-url", <<>>), Line("example-key", <<>>), Line("step3", <<>>)>>

ConfirmationLines == <<Line("status", <<>>), Line("connected", supabaseUrl)>>

DiagnosticLines_Both ==
    IF ~isSupabaseConfigured THEN WarningLines
    ELSE WarningLines \o ConfirmationLines

DiagnosticLines ==
    IF ~isSupabaseConfigured THEN WarningLines ELSE ConfirmationLines

----------------------------------------------------------------------------
(* Client construction, lines 71-76 *)

clientUrl == IF isSupabaseConfigured THEN supabaseUrl ELSE PlaceholderUrl

clientKey_Unguarded == supabaseAnonKey

clientKey == IF isSupabaseConfigured THEN supabaseAnonKey ELSE PlaceholderKey

\* the handle records the pair it was constructed with
createClient(url, key) == [url |-> url, key |-> key]

NoHandle == [url |-> <<>>, key |-> <<>>]

NoWindow == [testSupabaseConnection |-> FALSE, supabase |-> NoHandle]

----------------------------------------------------------------------------
(* Module load: the top-level statements in order *)

\* lines 32-33
Resolve ==
    /\ pc = "resolve"
    /\ LET u == ResolveUrl
           k == ResolveKey
       IN IF u = Raised \/ k = Raised
          THEN /\ pc' = "aborted"
               /\ UNCHANGED <<supabaseUrl, supabaseAnonKey>>
          ELSE /\ supabaseUrl' = u
               /\ supabaseAnonKey' = k
               /\ pc' = "validate"
    /\ UNCHANGED <<metaEnv, procEnv, hasWindow, isSupabaseConfigured, console,
                   supabase, created, window, calls, queries>>

\* lines 36-43
Validate ==
    /\ pc = "validate"
    /\ isSupabaseConfigured' = Configured(supabaseUrl, supabaseAnonKey)
    /\ pc' = "log"
    /\ UNCHANGED <<metaEnv, procEnv, hasWindow, supabaseUrl, supabaseAnonKey,
                   console, supabase, created, window, calls, queries>>

\* lines 46-69
LogStatus ==
    /\ pc = "log"
    /\ console' = console \o DiagnosticLines
    /\ pc' = "create"
    /\ UNCHANGED <<metaEnv, procEnv, hasWindow, supabaseUrl, supabaseAnonKey,
                   isSupabaseConfigured, supabase, created, window, calls, queries>>

\* lines 73-76
CreateClient ==
    /\ pc = "create"
    /\ supabase' = createClient(clientUrl, clientKey)
    /\ created' = created + 1
    /\ pc' = "bind"
    /\ UNCHANGED <<metaEnv, procEnv, hasWindow, supabaseUrl, supabaseAnonKey,
                   isSupabaseConfigured, console, window, calls, queries>>

\* lines 100-103
BindWindow ==
    /\ pc = "bind"
    /\ window' = IF hasWindow
                 THEN [testSupabaseConnection |-> TRUE, supabase |-> supabase]
                 ELSE window
    /\ pc' = "loaded"
    /\ UNCHANGED <<metaEnv, procEnv, hasWindow, supabaseUrl, supabaseAnonKey,
                   isSupabaseConfigured, console, supabase, created, calls, queries>>

----------------------------------------------------------------------------
(* testSupabaseConnection, lines 79-97 *)

CallIds == 1..MaxCalls

Absent == "<absent>"

Undefined == "<undefined>"

Rows == {"rows", "null"}

Msgs == {"m1", "m2"}

NoError == [isNull |-> TRUE, message |-> Undefined]

\* the error member of a response: null or an error object
ErrorVals == {NoError} \cup {[isNull |-> FALSE, message |-> m] : m \in Msgs}

\* what the awaited query resolves to
Responses == {[data |-> d, error |-> e] : d \in Rows, e \in ErrorVals}

NoResponse == [data |-> Absent, error |-> NoError]

\* what the awaited query may throw: an Error, a primitive string, undefined, null
ThrownVals ==
    {[type |-> "Error", message |-> m] : m \in Msgs}
    \cup {[type |-> "string", message |-> Undefined],
          [type |-> "undefined", message |-> Undefined],
          [type |-> "null", message |-> Undefined]}

NoThrown == [type |-> "none", message |-> Undefined]

NoOutcome == [kind |-> "none", response |-> NoResponse, thrown |-> NoThrown]

Pending == [kind |-> "pending", success |-> FALSE, data |-> Absent, error |-> Absent]

Resolved(success, data, error) ==
    [kind |-> "resolved", success |-> success, data |-> data, error |-> error]

\* the async function's promise rejects
Rejected(error) ==
    [kind |-> "rejected", success |-> FALSE, data |-> Absent, error |-> error]

IdleCall == [st |-> "idle", outcome |-> NoOutcome, result |-> Pending]

\* the query of line 86
ProfilesQuery(i) ==
    [caller |-> i, table |-> "profiles", columns |-> "*", limit |-> 1]

\* lines 87-92
OnResponse(resp) ==
    IF ~resp.error.isNull
    THEN [result |-> Resolved(FALSE, Absent, resp.error.message),
          line |-> Line("error:test-failed", <<resp.error.message>>)]
    ELSE [result |-> Resolved(TRUE, resp.data, Absent),
          line |-> Line("test-passed", <<>>)]

\* lines 93-96: reading e.message of undefined or null throws a TypeError
\* inside the catch block, which leaves the async function
OnThrown(e) ==
    IF e.type \in {"undefined", "null"}
    THEN [result |-> Rejected("TypeError"),
          line |-> Line("error:test-error", <<e.type>>)]
    ELSE [result |-> Resolved(FALSE, Absent, e.message),
          line |-> Line("error:test-error", <<e.type>>)]

Invoke_NoGuard(i) ==
    /\ pc = "loaded"
    /\ calls[i].st = "idle"
    /\ queries' = Append(queries, ProfilesQuery(i))
    /\ calls' = [calls EXCEPT ![i].st = "awaiting"]
    /\ UNCHANGED <<metaEnv, procEnv, hasWindow, pc, supabaseUrl, supabaseAnonKey,
                   isSupabaseConfigured, console, supabase, created, window>>

Invoke_Reconnect(i) ==
    /\ pc = "loaded"
    /\ calls[i].st = "idle"
    /\ IF ~isSupabaseConfigured
       THEN /\ console' = Append(console, Line("error:not-configured", <<>>))
            /\ calls' = [calls EXCEPT ![i].st = "done",
                                      ![i].result = Resolved(FALSE, Absent, "Not configured")]
            /\ UNCHANGED <<queries, supabase, created>>
       ELSE /\ queries' = Append(queries, ProfilesQuery(i))
            /\ calls' = [calls EXCEPT ![i].st = "awaiting"]
            /\ supabase' = createClient(clientUrl, clientKey)
            /\ created' = created + 1
            /\ UNCHANGED console
    /\ UNCHANGED <<metaEnv, procEnv, hasWindow, pc, supabaseUrl, supabaseAnonKey,
                   isSupabaseConfigured, window>>

\* lines 79-86, up to the await
Invoke(i) ==
    /\ pc = "loaded"
    /\ calls[i].st = "idle"
    /\ IF ~isSupabaseConfigured
       THEN /\ console' = Append(console, Line("error:not-configured", <<>>))
            /\ calls' = [calls EXCEPT ![i].st = "done",
                                      ![i].result = Resolved(FALSE, Absent, "Not configured")]
            /\ UNCHANGED queries
       ELSE /\ queries' = Append(queries, ProfilesQuery(i))
            /\ calls' = [calls EXCEPT ![i].st = "awaiting"]
            /\ UNCHANGED console
    /\ UNCHANGED <<metaEnv, procEnv, hasWindow, pc, supabaseUrl, supabaseAnonKey,
                   isSupabaseConfigured, supabase, created, window>>

Complete_Memo(j, outcome, r) ==
    LET settled == {k \in CallIds : calls[k].st = "done"}
        res == IF settled = {} THEN r.result
               ELSE calls[CHOOSE k \in settled : TRUE].result
    IN /\ calls' = [calls EXCEPT ![j] = [st |-> "done", outcome |-> outcome,
                                         result |-> res]]
       /\ console' = Append(console, r.line)
       /\ UNCHANGED <<metaEnv, procEnv, hasWindow, pc, supabaseUrl, supabaseAnonKey,
                      isSupabaseConfigured, supabase, created, window, queries>>

\* the continuation after the await settles the invocation's own promise
\* and writes its console line
Complete(j, outcome, r) ==
    /\ calls' = [calls EXCEPT ![j] = [st |-> "done", outcome |-> outcome,
                                      result |-> r.result]]
    /\ console' = Append(console, r.line)
    /\ UNCHANGED <<metaEnv, procEnv, hasWindow, pc, supabaseUrl, supabaseAnonKey,
                   isSupabaseConfigured, supabase, created, window, queries>>

\* the await of line 86 resumes with a response; lines 87-92
QueryResolves(i) ==
    /\ calls[i].st = "awaiting"
    /\ \E resp \in Responses :
          Complete(i, [kind |-> "response", response |-> resp, thrown |-> NoThrown],
                   OnResponse(resp))

\* the query throws or its promise rejects; lines 93-96
QueryRaises(i) ==
    /\ calls[i].st = "awaiting"
    /\ \E e \in ThrownVals :
          Complete(i, [kind |-> "thrown", response |-> NoResponse, thrown |-> e],
                   OnThrown(e))

----------------------------------------------------------------------------
(* Specifications *)

InitState ==
    /\ pc = "resolve"
    /\ supabaseUrl = <<>>
    /\ supabaseAnonKey = <<>>
    /\ isSupabaseConfigured = FALSE
    /\ console = <<>>
    /\ supabase = NoHandle
    /\ created = 0
    /\ window = NoWindow
    /\ calls = [i \in CallIds |-> IdleCall]
    /\ queries = <<>>

\* module load over every environment of the input domains
InitLoad ==
    /\ metaEnv \in Sources
    /\ procEnv \in Sources
    /\ hasWindow \in BOOLEAN
    /\ InitState

Load == Resolve \/ Validate \/ LogStatus \/ CreateClient \/ BindWindow

SpecLoad == InitLoad /\ [][Load]_vars

ValidVars ==
    [n \in Names |-> IF n = VITE_URL THEN RealUrl
                     ELSE IF n = VITE_KEY THEN KeyOfLen(KeyLenThreshold + 1)
                     ELSE <<>>]

ShortKeyVars ==
    [n \in Names |-> IF n = PLAIN_URL THEN RealUrl
                     ELSE IF n = PLAIN_KEY THEN KeyOfLen(KeyLenThreshold)
                     ELSE <<>>]

\* the environments the probe is exercised in: configured from either
\* source, misconfigured, and not configured at all
ProbeEnvs ==
    {<<[status |-> "ok", vars |-> ValidVars], [status |-> "missing", vars |-> NoVars]>>,
     <<[status |-> "throws", vars |-> NoVars], [status |-> "ok", vars |-> ValidVars]>>,
     <<[status |-> "ok", vars |-> ShortKeyVars], [status |-> "missing", vars |-> NoVars]>>,
     <<[status |-> "missing", vars |-> NoVars], [status |-> "missing", vars |-> NoVars]>>}

Init ==
    /\ \E e \in ProbeEnvs : metaEnv = e[1] /\ procEnv = e[2]
    /\ hasWindow \in BOOLEAN
    /\ InitState

Probe == \E i \in CallIds : Invoke(i) \/ QueryResolves(i) \/ QueryRaises(i)

Next == Load \/ Probe

Spec == Init /\ [][Next]_vars

----------------------------------------------------------------------------
(* Properties *)

AfterResolve == pc \in {"validate", "log", "create", "bind", "loaded"}

AfterValidate == pc \in {"log", "create", "bind", "loaded"}

AfterLog == pc \in {"create", "bind", "loaded"}

AfterCreate == pc \in {"bind", "loaded"}

HasPrefix(s, p) == Len(p) <= Len(s) /\ \A j \in 1..Len(p) : s[j] = p[j]

HasSubstring(s, sub) ==
    \E i \in 1..(Len(s) - Len(sub) + 1) : \A j \in 1..Len(sub) : s[i + j - 1] = sub[j]

\* C1: once validated, isSupabaseConfigured is true exactly when the
\* resolved url is non-empty, the resolved key is non-empty, the url does
\* not contain "placeholder", the url begins with "https://" and the key is
\* longer than 20 characters; a key of exactly 20 characters, an "http://"
\* url and the placeholder url each give false.
C1_ValidityIsThePredicate ==
    AfterValidate =>
        /\ isSupabaseConfigured =
              (/\ Len(supabaseUrl) > 0
               /\ Len(supabaseAnonKey) > 0
               /\ ~HasSubstring(supabaseUrl, PLACEHOLDER)
               /\ HasPrefix(supabaseUrl, HTTPS)
               /\ Len(supabaseAnonKey) > 20)
        /\ (Len(supabaseAnonKey) = 20 => ~isSupabaseConfigured)
        /\ (HasPrefix(supabaseUrl, HTTP) => ~isSupabaseConfigured)
        /\ (supabaseUrl = PlaceholderUrl => ~isSupabaseConfigured)

C1_Witness ==
    /\ AfterValidate
    /\ supabaseUrl = RealUrl
    /\ Len(supabaseAnonKey) = 20
    /\ ~isSupabaseConfigured

\* C2: the handle is constructed with the resolved pair when the flag is
\* true and with the two placeholder literals when it is false; never with
\* a mixed pair, and when the flag is false no component of the handle is a
\* resolved value unless that value is the placeholder literal itself.
C2_HandlePairFollowsFlag ==
    AfterCreate =>
        /\ isSupabaseConfigured =>
              supabase = [url |-> supabaseUrl, key |-> supabaseAnonKey]
        /\ ~isSupabaseConfigured =>
              supabase = [url |-> PlaceholderUrl, key |-> PlaceholderKey]
        /\ (supabase.url = PlaceholderUrl) <=> (supabase.key = PlaceholderKey)
        /\ ~isSupabaseConfigured =>
              /\ (supabase.url = supabaseUrl => supabaseUrl = PlaceholderUrl)
              /\ (supabase.key = supabaseAnonKey => supabaseAnonKey = PlaceholderKey)

C2_Witness ==
    /\ AfterCreate
    /\ supabaseUrl = RealUrl
    /\ Len(supabaseAnonKey) = 20
    /\ supabase = [url |-> PlaceholderUrl, key |-> PlaceholderKey]

\* what reading a name from a source yields when a failing or absent
\* source counts as not defining it
Read(src, key) == IF src.status = "ok" THEN src.vars[key] ELSE <<>>

RECURSIVE FirstNonEmpty(_)
FirstNonEmpty(vals) ==
    IF vals = <<>> THEN <<>>
    ELSE IF Head(vals) # <<>> THEN Head(vals)
    ELSE FirstNonEmpty(Tail(vals))

\* C6: each resolved value is the first non-empty one among the prefixed
\* name in the build-tool source, the prefixed name in the process source,
\* the unprefixed name in the build-tool source and the unprefixed name in
\* the process source, and empty if there is none.
C6_ResolutionOrder ==
    AfterResolve =>
        /\ supabaseUrl =
              FirstNonEmpty(<<Read(metaEnv, VITE_URL), Read(procEnv, VITE_URL),
                              Read(metaEnv, PLAIN_URL), Read(procEnv, PLAIN_URL)>>)
        /\ supabaseAnonKey =
              FirstNonEmpty(<<Read(metaEnv, VITE_KEY), Read(procEnv, VITE_KEY),
                              Read(metaEnv, PLAIN_KEY), Read(procEnv, PLAIN_KEY)>>)

C6_Witness ==
    /\ AfterResolve
    /\ Read(metaEnv, VITE_URL) = <<>>
    /\ Read(procEnv, VITE_URL) = PlainHttpUrl
    /\ Read(metaEnv, PLAIN_URL) = RealUrl
    /\ supabaseUrl = PlainHttpUrl

\* C7: no access failure leaves getEnv: with the build-tool source failing
\* or absent the process source still decides the value, with both
\* unavailable the values are empty, and in every case initialization runs
\* to the end with one handle constructed.
C7_LoadNeverAborts ==
    /\ pc # "aborted"
    /\ pc # "loaded" => ENABLED Load
    /\ pc = "loaded" => created = 1 /\ supabase # NoHandle
    /\ AfterResolve /\ metaEnv.status # "ok" =>
          /\ supabaseUrl = FirstNonEmpty(<<Read(procEnv, VITE_URL), Read(procEnv, PLAIN_URL)>>)
          /\ supabaseAnonKey = FirstNonEmpty(<<Read(procEnv, VITE_KEY), Read(procEnv, PLAIN_KEY)>>)
    /\ AfterResolve /\ metaEnv.status # "ok" /\ procEnv.status # "ok" =>
          supabaseUrl = <<>> /\ supabaseAnonKey = <<>>

C7_Witness ==
    /\ pc = "loaded"
    /\ metaEnv.status = "throws"
    /\ procEnv.status = "throws"
    /\ created = 1
    /\ supabase = [url |-> PlaceholderUrl, key |-> PlaceholderKey]

Kinds(lines) == {lines[n].kind : n \in DOMAIN lines}

WarningKinds ==
    {"alert", "checked", "howto", "step1", "step2", "example-url", "example-key", "step3"}

\* found/missing for one name, from the sources themselves
Defined(name) == Read(metaEnv, name) # <<>> \/ Read(procEnv, name) # <<>>

----------------------------------------------------------------------------
(* Properties of the probe *)

Done(i) == calls[i].st = "done"

QueriesOf(i) == {n \in DOMAIN queries : queries[n].caller = i}

NotConfiguredResult ==
    [kind |-> "resolved", success |-> FALSE, data |-> Absent, error |-> "Not configured"]

\* C3: with the flag false, every finished invocation returned
\* {success: false, error: "Not configured"}, no invocation is waiting on a
\* query, and no query was issued.
C3_UnconfiguredProbeDoesNoIO ==
    pc = "loaded" /\ ~isSupabaseConfigured =>
        /\ queries = <<>>
        /\ \A i \in CallIds :
              /\ calls[i].st # "awaiting"
              /\ Done(i) => calls[i].result = NotConfiguredResult

C3_Witness ==
    /\ pc = "loaded"
    /\ ~isSupabaseConfigured
    /\ supabaseUrl = RealUrl
    /\ \A i \in CallIds : Done(i)

\* C4: every finished invocation resolved to a structured result, and to
\* {success: false, ...} unless its query returned without an error; none
\* rejected.
C4_ProbeNeverRejects ==
    \A i \in CallIds :
        Done(i) =>
            /\ calls[i].result.kind = "resolved"
            /\ (calls[i].outcome.kind = "thrown" => ~calls[i].result.success)

\* the result the claim assigns to a query outcome
ClaimedResult(o) ==
    IF o.kind = "thrown" THEN Resolved(FALSE, Absent, o.thrown.message)
    ELSE IF ~o.response.error.isNull
         THEN Resolved(FALSE, Absent, o.response.error.message)
         ELSE Resolved(TRUE, o.response.data, Absent)

\* C5: with the flag true, each invocation issues exactly one query
\* (profiles, limit 1), and once finished its result is {success: true,
\* data} when the query returned without error, and {success: false, error}
\* with the returned error's message or the raised value's message otherwise.
C5_ResultFollowsQuery ==
    pc = "loaded" /\ isSupabaseConfigured =>
        \A i \in CallIds :
            /\ calls[i].st # "idle" =>
                  /\ Cardinality(QueriesOf(i)) = 1
                  /\ \A n \in QueriesOf(i) :
                        queries[n].table = "profiles" /\ queries[n].limit = 1
            /\ Done(i) => calls[i].result = ClaimedResult(calls[i].outcome)

\* C8: the handle is constructed once, and from its construction on no step
\* (the ambient binding, an invocation, a completion of any kind) changes
\* the resolved pair, the flag, the handle or the construction count.
C8_SingleImmutableHandle ==
    /\ [](created <= 1 /\ (AfterCreate => created = 1))
    /\ [][AfterCreate =>
            UNCHANGED <<supabaseUrl, supabaseAnonKey, isSupabaseConfigured,
                        supabase, created>>]_vars

C8_Witness ==
    /\ pc = "loaded"
    /\ created = 1
    /\ window.supabase = supabase
    /\ supabase.url = RealUrl
    /\ \E i, j \in CallIds :
          /\ Done(i) /\ calls[i].result.kind = "rejected"
          /\ Done(j) /\ calls[j].result.success

====
